---- MODULE Spec2Model ----
(***************************************************************************)
(* Tone synthesis and audio playback control of the Circuit Playground     *)
(* Express / Bluefruit classes (express.py and bluefruit.py hold the same  *)
(* code except for the audio-output class they open).                      *)
(*                                                                         *)
(* The program is single threaded.  Each statement of start_tone,          *)
(* _generate_sample, stop_tone, play_tone and play_file is one action, pc  *)
(* is the statement about to run and ret the labels the running calls      *)
(* return to.  External calls that can raise (opening the audio-output     *)
(* device, play(), opening and decoding the file) succeed or raise by a    *)
(* nondeterministic choice.                                                *)
(***************************************************************************)
EXTENDS Integers, Sequences, FiniteSets

\* ---------------------------------------------------------------- bounds

\* Audio-output handles that can be opened in one behaviour; when they are
\* used up every further open fails (device unavailable).
MaxOpens == 2

\* Longest play_tone duration, in sleep ticks.
MaxDuration == 1

\* Longest wave table the generator is run for on its own.
MaxTableLength == 12

\* ------------------------------------------------------ program constants

\* express.py:145  length = 100
DefaultLength == 100

\* express.py:146  if length * frequency > 350000
MaxRate == 350000

\* The value of a reference that is None (self._sample, the local audio).
None == 0

\* Frequencies passed to start_tone and play_tone: a non-positive one, an
\* ordinary one, the largest with 100 * f <= 350000, the spec's example 4000
\* above it, and the smallest whose table length 350000 // f is 0.
Frequencies == {0, 440, 3500, 4000, 350001}

\* Files passed to play_file: a readable wave file, a path that does not
\* exist, and a file whose contents are not a wave file.
FileNames == {"laugh.wav", "missing.wav", "corrupt.wav"}

Durations == 0..MaxDuration

VARIABLES
    \* ---- the object's fields
    speaker_enable,     \* self._speaker_enable.value
    sample,             \* self._sample: a handle, or None
    sine_wave,          \* self._sine_wave: [exists, length] of the array
    sine_wave_sample,   \* self._sine_wave_sample: [exists, buffer, sample_rate]
    \* ---- the audio hardware
    openHandles,        \* handles opened and not yet deinit()ed
    playingHandles,     \* handles whose .playing is True
    opened,             \* number of handles opened so far
    \* ---- parameters and locals of the running calls
    frequency,          \* start_tone / play_tone parameter
    length,             \* start_tone local
    duration,           \* play_tone parameter, counted down by the sleep
    file_name,          \* play_file parameter
    audio,              \* play_file's with-target, or None
    exc,                \* exception propagating out of the with block
    \* ---- control
    pc,                 \* statement about to run; "idle" between calls
    ret,                \* return labels of the running calls
    op,                 \* public operation running, or the last one run
    result,             \* how it ended: "ok" or the error raised
    \* ---- history (not read by the program)
    entry,              \* fields and hardware when op was called
    prevOp,             \* the public operation before op
    prevResult,         \* and how it ended
    hwCalls,            \* hardware calls made by op so far
    ampSet,             \* op has written True to the enable line
    \* ---- one run of the _sine_sample generator
    table_length,       \* its parameter length
    table,              \* the values yielded so far, in order
    gen_done            \* the generator is exhausted

fields == <<speaker_enable, sample, sine_wave, sine_wave_sample>>
hardware == <<openHandles, playingHandles, opened>>
locals == <<frequency, length, duration, file_name, audio, exc>>
control == <<pc, ret, op, result>>
history == <<entry, prevOp, prevResult, hwCalls, ampSet>>
generator == <<table_length, table, gen_done>>
vars == <<fields, hardware, locals, control, history, generator>>

NoArray == [exists |-> FALSE, length |-> 0]
NoRawSample == [exists |-> FALSE, buffer |-> 0, sample_rate |-> 0]

\* What a public call records when it starts.
Snapshot ==
    [speaker_enable |-> speaker_enable, sample |-> sample,
     sine_wave |-> sine_wave, sine_wave_sample |-> sine_wave_sample,
     openHandles |-> openHandles, playingHandles |-> playingHandles,
     tonePlaying |-> (sample # None /\ sample \in playingHandles)]

Constructed ==
    /\ speaker_enable = FALSE
    /\ sample = None
    /\ sine_wave = NoArray
    /\ sine_wave_sample = NoRawSample
    /\ openHandles = {}
    /\ playingHandles = {}
    /\ opened = 0
    /\ frequency = 0
    /\ length = 0
    /\ duration = 0
    /\ file_name = "laugh.wav"
    /\ audio = None
    /\ exc = "none"
    /\ pc = "idle"
    /\ ret = <<>>
    /\ op = "none"
    /\ result = "none"
    /\ entry = Snapshot
    /\ prevOp = "none"
    /\ prevResult = "none"
    /\ hwCalls = {}
    /\ ampSet = FALSE

Init ==
    /\ Constructed
    /\ table_length = 0
    /\ table = <<>>
    /\ gen_done = FALSE

\* ------------------------------------------------------- call and return

\* A public method is called from user code.
Call(name, first, after) ==
    /\ pc = "idle"
    /\ pc' = first
    /\ ret' = after
    /\ op' = name
    /\ result' = "none"
    /\ entry' = Snapshot
    /\ prevOp' = op
    /\ prevResult' = result
    /\ hwCalls' = {}
    /\ ampSet' = FALSE
    /\ UNCHANGED generator

\* The running method returns: to its caller's next statement, or to user code.
Return ==
    IF ret = <<>>
    THEN /\ pc' = "idle"
         /\ ret' = ret
         /\ result' = "ok"
    ELSE /\ pc' = Head(ret)
         /\ ret' = Tail(ret)
         /\ result' = result

\* An exception raised where no try or with encloses it: every running call
\* is abandoned and the error reaches user code.
Raise(e) ==
    /\ pc' = "idle"
    /\ ret' = <<>>
    /\ result' = e

Goto(label) ==
    /\ pc' = label
    /\ UNCHANGED <<ret, result>>

\* A step that makes hardware call hw ("none" for no call).
Hw(hw) ==
    /\ hwCalls' = IF hw = "none" THEN hwCalls ELSE hwCalls \cup {hw}
    /\ UNCHANGED <<entry, prevOp, prevResult, op, generator>>

\* ---------------------------------------------------------- _sine_sample

\* tone_volume = (2 ** 15) - 1
ToneVolume == 2^15 - 1

\* shift = 2 ** 15
Shift == 2^15

\* tone_volume * math.sin(2*math.pi*(i / length)), rounded down, for
\* length = 1..16 and i = 0..length-1, as double-precision arithmetic gives
\* it: ScaledSine[length][i + 1].
ScaledSine ==
    <<
      <<0>>,
      <<0, 0>>,
      <<0, 28377, -28378>>,
      <<0, 32767, 0, -32767>>,
      <<0, 31163, 19259, -19260, -31164>>,
      <<0, 28377, 28377, 0, -28378, -28378>>,
      <<0, 25618, 31945, 14217, -14218, -31946, -25619>>,
      <<0, 23169, 32767, 23169, 0, -23170, -32767, -23170>>,
      <<0, 21062, 32269, 28377, 11206, -11207, -28378, -32270, -21063>>,
      <<0, 19259, 31163, 31163, 19259, 0, -19260, -31164, -31164, -19260>>,
      <<0, 17715, 29805, 32433, 24763, 9231, -9232, -24764, -32434, -29806,
        -17716>>,
      <<0, 16383, 28377, 32767, 28377, 16383, 0, -16384, -28378, -32767,
        -28378, -16384>>,
      <<0, 15227, 26966, 32528, 30637, 21728, 7841, -7842, -21729, -30638,
        -32529, -26967, -15228>>,
      <<0, 14217, 25618, 31945, 31945, 25618, 14217, 0, -14218, -25619,
        -31946, -31946, -25619, -14218>>,
      <<0, 13327, 24350, 31163, 32587, 28377, 19259, 6812, -6813, -19260,
        -28378, -32588, -31164, -24351, -13328>>,
      <<0, 12539, 23169, 30272, 32767, 30272, 23169, 12539, 0, -12540,
        -23170, -30273, -32767, -30273, -23170, -12540>>
    >>

SineSampleUnshifted(i, len) ==
    ScaledSine[len][i + 1]

\* int(tone_volume * math.sin(2*math.pi*(i / length)) + shift)
SineSample(i, len) ==
    ScaledSine[len][i + 1] + Shift

\* _sine_sample(length) is called for a table of some length
SineInit ==
    /\ Constructed
    /\ table_length \in 1..MaxTableLength
    /\ table = <<>>
    /\ gen_done = FALSE

\* for i in range(length): yield ...  -- i is the number of values yielded
SineYield ==
    /\ ~gen_done
    /\ Len(table) < table_length
    /\ table' = Append(table, SineSample(Len(table), table_length))
    /\ UNCHANGED <<table_length, gen_done>>
    /\ UNCHANGED <<fields, hardware, locals, control, history>>

\* range(length) is exhausted: the generator stops
SineStop ==
    /\ ~gen_done
    /\ Len(table) >= table_length
    /\ gen_done' = TRUE
    /\ UNCHANGED <<table_length, table>>
    /\ UNCHANGED <<fields, hardware, locals, control, history>>

SineNext ==
    \/ SineYield
    \/ SineStop

SineSpec == SineInit /\ [][SineNext]_vars

\* ------------------------------------------------------------ start_tone

start_tone(f) ==
    /\ Call("start_tone", "st_enable", <<>>)
    /\ frequency' = f
    /\ length' = 0
    /\ UNCHANGED <<fields, hardware, duration, file_name, audio, exc>>

StEnableNoWrite ==
    /\ pc = "st_enable"
    /\ Goto("st_length")
    /\ Hw("none")
    /\ UNCHANGED <<fields, hardware, locals, ampSet>>

\* self._speaker_enable.value = True
StEnable ==
    /\ pc = "st_enable"
    /\ speaker_enable' = TRUE
    /\ ampSet' = TRUE
    /\ Goto("st_length")
    /\ Hw("none")
    /\ UNCHANGED <<sample, sine_wave, sine_wave_sample, hardware, locals>>

ComputeLengthNoClamp(f) ==
    DefaultLength

\* length = 100; if length * frequency > 350000: length = 350000 // frequency
ComputeLength(f) ==
    IF DefaultLength * f > MaxRate THEN MaxRate \div f ELSE DefaultLength

StLength ==
    /\ pc = "st_length"
    /\ length' = ComputeLength(frequency)
    /\ Goto("gs_check")
    /\ Hw("none")
    /\ UNCHANGED <<fields, hardware, frequency, duration, file_name, audio, exc, ampSet>>

GenerateAlways(s) ==
    TRUE

\* _generate_sample: if self._sample is not None: return
NeedGenerate(s) ==
    s = None

GsCheck ==
    /\ pc = "gs_check"
    /\ IF NeedGenerate(sample) THEN Goto("gs_wave") ELSE Goto("st_rate")
    /\ Hw("none")
    /\ UNCHANGED <<fields, hardware, locals, ampSet>>

GsWaveKeepFirst ==
    /\ pc = "gs_wave"
    /\ sine_wave' = IF sine_wave.exists THEN sine_wave
                                        ELSE [exists |-> TRUE, length |-> length]
    /\ Goto("gs_open")
    /\ Hw("none")
    /\ UNCHANGED <<speaker_enable, sample, sine_wave_sample, hardware, locals, ampSet>>

\* self._sine_wave = array.array("H", _sine_sample(length))
GsWave ==
    /\ pc = "gs_wave"
    /\ sine_wave' = [exists |-> TRUE, length |-> length]
    /\ Goto("gs_open")
    /\ Hw("none")
    /\ UNCHANGED <<speaker_enable, sample, sine_wave_sample, hardware, locals, ampSet>>

\* self._sample = AudioOut(board.SPEAKER): a new handle, or the open raises
GsOpen ==
    /\ pc = "gs_open"
    /\ \E ok \in BOOLEAN :
         IF ok /\ opened < MaxOpens
         THEN /\ opened' = opened + 1
              /\ openHandles' = openHandles \cup {opened + 1}
              /\ sample' = opened + 1
              /\ Goto("gs_raw")
         ELSE /\ Raise("DeviceUnavailable")
              /\ UNCHANGED <<opened, openHandles, sample>>
    /\ Hw("open")
    /\ UNCHANGED <<speaker_enable, sine_wave, sine_wave_sample, playingHandles, locals, ampSet>>

\* self._sine_wave_sample = RawSample(self._sine_wave)
GsRaw ==
    /\ pc = "gs_raw"
    /\ sine_wave_sample' =
         [exists |-> TRUE, buffer |-> sine_wave.length, sample_rate |-> 0]
    /\ Goto("st_rate")
    /\ Hw("none")
    /\ UNCHANGED <<speaker_enable, sample, sine_wave, hardware, locals, ampSet>>

RateFromRequestedLength(len, f) ==
    ComputeLength(f) * f

\* int(len(self._sine_wave) * frequency)
Rate(len, f) ==
    len * f

\* self._sine_wave_sample.sample_rate = int(len(self._sine_wave) * frequency)
StRate ==
    /\ pc = "st_rate"
    /\ IF sine_wave_sample.exists /\ sine_wave.exists
       THEN /\ sine_wave_sample' =
                 [sine_wave_sample EXCEPT
                     !.sample_rate = Rate(sine_wave.length, frequency)]
            /\ Goto("st_play")
       ELSE /\ Raise("AttributeError")
            /\ UNCHANGED sine_wave_sample
    /\ Hw("none")
    /\ UNCHANGED <<speaker_enable, sample, sine_wave, hardware, locals, ampSet>>

\* if not self._sample.playing: self._sample.play(self._sine_wave_sample, loop=True)
StPlay ==
    /\ pc = "st_play"
    /\ IF sample \in playingHandles
       THEN /\ Return
            /\ Hw("none")
            /\ UNCHANGED playingHandles
       ELSE /\ Hw("play")
            /\ \E ok \in BOOLEAN :
                 IF ok
                 THEN /\ playingHandles' = playingHandles \cup {sample}
                      /\ Return
                 ELSE /\ Raise("PlayError")
                      /\ UNCHANGED playingHandles
    /\ UNCHANGED <<fields, openHandles, opened, locals, ampSet>>

\* ------------------------------------------------------------- stop_tone

stop_tone ==
    /\ Call("stop_tone", "sp_check", <<>>)
    /\ UNCHANGED <<fields, hardware, locals>>

TeardownNever(s, playing) ==
    FALSE

TeardownWheneverPresent(s, playing) ==
    s # None

\* if self._sample is not None and self._sample.playing:
ToneActive(s, playing) ==
    s # None /\ s \in playing

SpCheck ==
    /\ pc = "sp_check"
    /\ IF ToneActive(sample, playingHandles) THEN Goto("sp_stop") ELSE Goto("sp_disable")
    /\ Hw("none")
    /\ UNCHANGED <<fields, hardware, locals, ampSet>>

\* self._sample.stop()
SpStop ==
    /\ pc = "sp_stop"
    /\ playingHandles' = playingHandles \ {sample}
    /\ Goto("sp_deinit")
    /\ Hw("stop")
    /\ UNCHANGED <<fields, openHandles, opened, locals, ampSet>>

\* self._sample.deinit()
SpDeinit ==
    /\ pc = "sp_deinit"
    /\ openHandles' = openHandles \ {sample}
    /\ playingHandles' = playingHandles \ {sample}
    /\ Goto("sp_clear")
    /\ Hw("deinit")
    /\ UNCHANGED <<fields, opened, locals, ampSet>>

\* self._sample = None
SpClear ==
    /\ pc = "sp_clear"
    /\ sample' = None
    /\ Goto("sp_disable")
    /\ Hw("none")
    /\ UNCHANGED <<speaker_enable, sine_wave, sine_wave_sample, hardware, locals, ampSet>>

\* self._speaker_enable.value = False
SpDisable ==
    /\ pc = "sp_disable"
    /\ speaker_enable' = FALSE
    /\ Return
    /\ Hw("none")
    /\ UNCHANGED <<sample, sine_wave, sine_wave_sample, hardware, locals, ampSet>>

\* ------------------------------------------------------------- play_tone

\* self.start_tone(frequency)
play_tone(f, d) ==
    /\ Call("play_tone", "st_enable", <<"pt_sleep">>)
    /\ frequency' = f
    /\ length' = 0
    /\ duration' = d
    /\ UNCHANGED <<fields, hardware, file_name, audio, exc>>

\* time.sleep(duration): one tick of the sleep
PtSleep ==
    /\ pc = "pt_sleep"
    /\ duration > 0
    /\ duration' = duration - 1
    /\ Goto("pt_sleep")
    /\ Hw("none")
    /\ UNCHANGED <<fields, hardware, frequency, length, file_name, audio, exc, ampSet>>

PtStopSkipped ==
    /\ pc = "pt_sleep"
    /\ duration = 0
    /\ Goto("pt_return")
    /\ Hw("none")
    /\ UNCHANGED <<fields, hardware, locals, ampSet>>

\* the sleep is over; self.stop_tone()
PtStop ==
    /\ pc = "pt_sleep"
    /\ duration = 0
    /\ pc' = "sp_check"
    /\ ret' = <<"pt_return">>
    /\ UNCHANGED result
    /\ Hw("none")
    /\ UNCHANGED <<fields, hardware, locals, ampSet>>

PtReturn ==
    /\ pc = "pt_return"
    /\ Return
    /\ Hw("none")
    /\ UNCHANGED <<fields, hardware, locals, ampSet>>

\* ------------------------------------------------------------- play_file

\* self.stop_tone()
play_file(fn) ==
    /\ Call("play_file", "sp_check", <<"pf_enable">>)
    /\ file_name' = fn
    /\ UNCHANGED <<fields, hardware, frequency, length, duration, audio, exc>>

\* self._speaker_enable.value = True
PfEnable ==
    /\ pc = "pf_enable"
    /\ speaker_enable' = TRUE
    /\ ampSet' = TRUE
    /\ Goto("pf_open")
    /\ Hw("none")
    /\ UNCHANGED <<sample, sine_wave, sine_wave_sample, hardware, locals>>

\* with AudioOut(board.SPEAKER) as audio: a new handle, or the open raises
PfOpen ==
    /\ pc = "pf_open"
    /\ \E ok \in BOOLEAN :
         IF ok /\ opened < MaxOpens
         THEN /\ opened' = opened + 1
              /\ openHandles' = openHandles \cup {opened + 1}
              /\ audio' = opened + 1
              /\ Goto("pf_wave")
         ELSE /\ Raise("DeviceUnavailable")
              /\ UNCHANGED <<opened, openHandles, audio>>
    /\ Hw("open")
    /\ UNCHANGED <<fields, playingHandles, frequency, length, duration, file_name, exc, ampSet>>

\* What open(file_name, "rb") and WaveFile(...) raise for the file, if anything.
FileError(fn) ==
    CASE fn = "missing.wav" -> "FileNotFound"
      [] fn = "corrupt.wav" -> "DecodeError"
      [] OTHER -> "none"

\* wavefile = WaveFile(open(file_name, "rb")); an error leaves through the with
PfWave ==
    /\ pc = "pf_wave"
    /\ exc' = FileError(file_name)
    /\ IF FileError(file_name) = "none" THEN Goto("pf_play") ELSE Goto("pf_exit")
    /\ Hw("none")
    /\ UNCHANGED <<fields, hardware, frequency, length, duration, file_name, audio, ampSet>>

\* audio.play(wavefile)
PfPlay ==
    /\ pc = "pf_play"
    /\ \E ok \in BOOLEAN :
         IF ok
         THEN /\ playingHandles' = playingHandles \cup {audio}
              /\ exc' = "none"
              /\ Goto("pf_poll")
         ELSE /\ exc' = "PlayError"
              /\ Goto("pf_exit")
              /\ UNCHANGED playingHandles
    /\ Hw("play")
    /\ UNCHANGED <<fields, openHandles, opened, frequency, length, duration, file_name, audio, ampSet>>

\* The hardware reaches the end of the one-shot sample.
FileFinishes ==
    /\ pc = "pf_poll"
    /\ audio \in playingHandles
    /\ playingHandles' = playingHandles \ {audio}
    /\ UNCHANGED <<fields, openHandles, opened, locals, control, history, generator>>

\* while audio.playing: pass -- the loop ends when playing is False
PfPoll ==
    /\ pc = "pf_poll"
    /\ audio \notin playingHandles
    /\ Goto("pf_exit")
    /\ Hw("none")
    /\ UNCHANGED <<fields, hardware, locals, ampSet>>

\* the with block's exit: audio.deinit(), then the pending error goes on
PfExit ==
    /\ pc = "pf_exit"
    /\ openHandles' = openHandles \ {audio}
    /\ playingHandles' = playingHandles \ {audio}
    /\ audio' = None
    /\ exc' = "none"
    /\ IF exc = "none" THEN Goto("pf_disable") ELSE Raise(exc)
    /\ Hw("deinit")
    /\ UNCHANGED <<fields, opened, frequency, length, duration, file_name, ampSet>>

\* self._speaker_enable.value = False
PfDisable ==
    /\ pc = "pf_disable"
    /\ speaker_enable' = FALSE
    /\ Return
    /\ Hw("none")
    /\ UNCHANGED <<sample, sine_wave, sine_wave_sample, hardware, locals, ampSet>>

\* ------------------------------------------------------------ the program

Next ==
    \/ \E f \in Frequencies : start_tone(f)
    \/ StEnable
    \/ StLength
    \/ GsCheck
    \/ GsWave
    \/ GsOpen
    \/ GsRaw
    \/ StRate
    \/ StPlay
    \/ stop_tone
    \/ SpCheck
    \/ SpStop
    \/ SpDeinit
    \/ SpClear
    \/ SpDisable
    \/ \E f \in Frequencies, d \in Durations : play_tone(f, d)
    \/ PtSleep
    \/ PtStop
    \/ PtReturn
    \/ \E fn \in FileNames : play_file(fn)
    \/ PfEnable
    \/ PfOpen
    \/ PfWave
    \/ PfPlay
    \/ FileFinishes
    \/ PfPoll
    \/ PfExit
    \/ PfDisable

Spec == Init /\ [][Next]_vars

\* A step of the running call, or of the hardware it waits for.
Running == pc # "idle" /\ Next

\* The interpreter keeps executing a call that has started, the sleep ends,
\* and the device reaches the end of a one-shot sample; user code need not
\* call again.
FairSpec == Spec /\ WF_vars(Running)

\* ------------------------------------------------------------ vocabulary

Quiescent == pc = "idle"

TonePlaying == sample # None /\ sample \in playingHandles

FilePlaying == audio # None /\ audio \in playingHandles

StartToneLabels ==
    {"st_enable", "st_length", "gs_check", "gs_wave", "gs_open", "gs_raw",
     "st_rate", "st_play"}

\* play_file's own statements, after its opening stop_tone() has returned
AfterPlayFileStop ==
    {"pf_enable", "pf_open", "pf_wave", "pf_play", "pf_poll", "pf_exit",
     "pf_disable"}

\* start_tone is running (called by user code or by play_tone), or was the
\* last public operation to run
InStartTone ==
    \/ op = "start_tone"
    \/ op = "play_tone" /\ pc \in StartToneLabels

\* ----------------------------------------------------------------- claims

\* C1: when play_file ends by raising a file or decode error, the amplifier
\* enable line is disabled at the moment the error reaches the caller.
C1_FileErrorLeavesAmpDisabled ==
    (Quiescent /\ op = "play_file" /\ result \in {"FileNotFound", "DecodeError"})
        => ~speaker_enable

\* C2: in every state where no public operation is in progress, the amplifier
\* is enabled only if a tone player is playing.
C2_QuiescentAmpOnlyWhilePlaying ==
    Quiescent => (speaker_enable => TonePlaying)

\* C3: when play_file ends because opening the audio-output device failed, no
\* step of that call has set the amplifier enable line to enabled.
C3_OpenFailureNeverEnablesAmp ==
    (Quiescent /\ op = "play_file" /\ result = "DeviceUnavailable") => ~ampSet

\* C4: start_tone(f) with f > 0 that returned normally, followed immediately
\* by stop_tone(), leaves the amplifier disabled, the sample-player reference
\* None and the player's handle stopped and released.
C4_StartThenStop ==
    (Quiescent /\ op = "stop_tone" /\ prevOp = "start_tone" /\ prevResult = "ok"
        /\ frequency > 0)
        => /\ result = "ok"
           /\ ~speaker_enable
           /\ sample = None
           /\ entry.sample # None
           /\ entry.sample \notin playingHandles
           /\ entry.sample \notin openHandles
           /\ {"stop", "deinit"} \subseteq hwCalls

C4_Witness ==
    /\ Quiescent /\ op = "stop_tone" /\ prevOp = "start_tone" /\ prevResult = "ok"
    /\ frequency > 0
    /\ entry.tonePlaying

\* C5: a start_tone called while a tone is playing changes only the playback
\* rate: it opens no handle, keeps the same handle, calls neither play() nor
\* stop(), leaves the cached wave table alone and keeps the amplifier enabled.
C5_RestartOnlyChangesRate ==
    (InStartTone /\ entry.tonePlaying)
        => /\ hwCalls = {}
           /\ sample = entry.sample
           /\ openHandles = entry.openHandles
           /\ playingHandles = entry.playingHandles
           /\ sine_wave = entry.sine_wave
           /\ sine_wave_sample.exists
           /\ sine_wave_sample.buffer = entry.sine_wave_sample.buffer
           /\ speaker_enable
           /\ result \in {"none", "ok"}

C5_Witness ==
    /\ Quiescent /\ op = "start_tone" /\ result = "ok"
    /\ entry.tonePlaying
    /\ sine_wave_sample.sample_rate # entry.sine_wave_sample.sample_rate

\* C6: at every step at most one playback source is active, and when
\* play_file is called while a tone is playing, the tone is stopped and its
\* handle released before the file's device is opened or played.
C6_SingleActiveSource ==
    /\ ~(TonePlaying /\ FilePlaying)
    /\ Cardinality(playingHandles) <= 1
    /\ (op = "play_file" /\ entry.tonePlaying /\ pc \in AfterPlayFileStop)
         => /\ sample = None
            /\ entry.sample \notin playingHandles
            /\ entry.sample \notin openHandles
    /\ (audio # None /\ entry.tonePlaying)
         => entry.sample \notin (playingHandles \cup openHandles)

C6_Witness ==
    op = "play_file" /\ entry.tonePlaying /\ FilePlaying

\* C7: at every step, whenever a tone or file player is playing the amplifier
\* is enabled; playback only starts with the amplifier enabled, and the
\* amplifier is only disabled once nothing is playing and play_file's device
\* has been released.
C7_PlayingImpliesAmpEnabled ==
    /\ [](playingHandles # {} => speaker_enable)
    /\ [][ /\ (playingHandles' \ playingHandles # {}) => speaker_enable
           /\ (speaker_enable /\ ~speaker_enable')
                => (playingHandles = {} /\ audio = None) ]_vars

C7_Witness ==
    /\ Quiescent /\ op = "play_file" /\ result = "ok"
    /\ entry.tonePlaying /\ ~speaker_enable /\ {"play", "deinit"} \subseteq hwCalls

\* C8: the table length start_tone(f) passes to the sample cache is 100 for
\* every f > 0 with 100 * f <= 350000 and floor(350000 / f) for every f with
\* 100 * f > 350000; it is 87 for f = 4000.
C8_TableLength ==
    (pc = "gs_check" /\ frequency > 0)
        => /\ (100 * frequency <= 350000) => length = 100
           /\ (100 * frequency > 350000)
                => /\ length * frequency <= 350000
                   /\ (length + 1) * frequency > 350000
           /\ (frequency = 4000) => length = 87

C8_Witness ==
    pc = "gs_check" /\ frequency = 4000 /\ length = 87

\* C9: stop_tone called with no active tone raises nothing and changes nothing
\* but the amplifier, which it disables; a second stop_tone in a row leaves
\* the state the first one left.
C9_StopToneIdempotent ==
    /\ (Quiescent /\ op = "stop_tone" /\ ~entry.tonePlaying)
         => /\ result = "ok"
            /\ hwCalls = {}
            /\ ~speaker_enable
            /\ sample = entry.sample
            /\ sine_wave = entry.sine_wave
            /\ sine_wave_sample = entry.sine_wave_sample
            /\ openHandles = entry.openHandles
            /\ playingHandles = entry.playingHandles
    /\ (Quiescent /\ op = "stop_tone" /\ prevOp = "stop_tone")
         => /\ result = "ok"
            /\ speaker_enable = entry.speaker_enable
            /\ sample = entry.sample
            /\ sine_wave = entry.sine_wave
            /\ sine_wave_sample = entry.sine_wave_sample
            /\ openHandles = entry.openHandles
            /\ playingHandles = entry.playingHandles

C9_Witness ==
    /\ Quiescent /\ op = "stop_tone" /\ prevOp = "stop_tone"
    /\ sample # None /\ sample \in openHandles

\* C10: once stop_tone has returned, no tone handle remains open and the
\* sample-player reference is None, also when the player existed without
\* playing.
C10_StopToneDestroysSession ==
    (Quiescent /\ op = "stop_tone")
        => /\ sample = None
           /\ entry.sample \notin openHandles

\* C11: start_tone never generates a wave table of length 0 or less: the wave
\* table generator is reached, and a player created, only for a positive
\* frequency with a positive computed table length.
C11_InvalidFrequencyRejected ==
    /\ (pc \in {"gs_wave", "gs_open", "gs_raw"}) => (frequency > 0 /\ length > 0)
    /\ sine_wave.exists => sine_wave.length > 0

\* C15: with positive frequencies only, the playback rate start_tone sets
\* never exceeds 350000, also when start_tone(f2) with 100 * f2 > 350000 is
\* called while a tone started with a lower positive frequency is playing.
C15_RateNeverExceedsMaximum ==
    (InStartTone /\ frequency > 0 /\ pc \in {"st_play", "idle"}
        /\ (\/ entry.sample = None
            \/ entry.tonePlaying /\ entry.sine_wave_sample.sample_rate > 0))
        => sine_wave_sample.sample_rate <= 350000

C17_RateUsesCachedLength ==
    ((Quiescent /\ op = "start_tone" /\ result = "ok")
        \/ (op = "play_tone" /\ pc = "pt_sleep"))
        => /\ sine_wave_sample.exists
           /\ sine_wave_sample.sample_rate = sine_wave.length * frequency
           /\ sine_wave_sample.buffer = sine_wave.length

C17_Witness ==
    /\ Quiescent /\ op = "start_tone" /\ result = "ok"
    /\ length # sine_wave.length
    /\ sine_wave_sample.sample_rate # length * frequency

\* C18: at every reachable state at most one audio-output handle is open,
\* counting the tone player's and play_file's; the sample-player reference is
\* non-None exactly when its tone handle is open; and every open handle is
\* referenced.  (Stated outside the one statement boundary of stop_tone,
\* between deinit() and the clearing of the reference, where the reference
\* still names the handle just released.)
C18_AtMostOneHandle ==
    /\ Cardinality(openHandles) <= 1
    /\ openHandles \subseteq ({sample, audio} \ {None})
    /\ (pc # "sp_clear") => ((sample # None) <=> (sample \in openHandles))

\* C19: a start_tone(f), f > 0, called when no tone player exists opens a new
\* player and regenerates the wave table with the length computed for f:
\* the table length is min(100, floor(350000 / f)) and the rate set is at
\* most 350000.
C19_FreshStartRegenerates ==
    (InStartTone /\ entry.sample = None /\ frequency > 0)
        => /\ (pc \in {"gs_open", "gs_raw", "st_rate", "st_play"}
                 \/ (Quiescent /\ result = "ok"))
                => sine_wave =
                     [exists |-> TRUE,
                      length |-> IF 350000 \div frequency < 100
                                 THEN 350000 \div frequency ELSE 100]
           /\ (pc = "st_play" \/ (Quiescent /\ result = "ok"))
                => /\ sample # None
                   /\ sample \in openHandles
                   /\ sample \notin entry.openHandles
                   /\ "open" \in hwCalls
                   /\ sine_wave_sample.buffer = sine_wave.length
                   /\ sine_wave_sample.sample_rate = sine_wave.length * frequency
                   /\ sine_wave_sample.sample_rate <= 350000

C19_Witness ==
    /\ Quiescent /\ op = "start_tone" /\ result = "ok"
    /\ entry.sample = None
    /\ entry.sine_wave.exists
    /\ entry.sine_wave.length # sine_wave.length
    /\ frequency = 4000

\* C13: when a play_file call on a readable file returns, its handle has
\* been released and the amplifier disabled after it: the state is idle with
\* no handle open and the amplifier disabled.
C13_PlayFileEndsIdle ==
    (Quiescent /\ op = "play_file" /\ FileError(file_name) = "none"
        /\ result = "ok")
        => /\ audio = None
           /\ openHandles = {}
           /\ ~speaker_enable

\* C12: play_tone(f, d) with f > 0 and any d >= 0, 0 included, terminates;
\* once its start_tone has returned the amplifier is enabled and the tone is
\* playing, and when the call returns the amplifier has been enabled and is
\* now disabled, no tone is playing and the sample-player reference is None.
C12_PlayToneTerminates ==
    /\ []((op = "play_tone" /\ frequency > 0)
            => /\ (pc = "pt_sleep")
                    => (ampSet /\ speaker_enable /\ TonePlaying)
               /\ (pc = "pt_return" \/ (Quiescent /\ result = "ok"))
                    => /\ ampSet
                       /\ ~speaker_enable
                       /\ playingHandles = {}
                       /\ sample = None
                       /\ duration = 0)
    /\ ((op = "play_tone" /\ frequency > 0 /\ ~Quiescent)
            ~> (op = "play_tone" /\ Quiescent))

C12_Witness ==
    /\ Quiescent /\ op = "play_tone" /\ result = "ok" /\ frequency > 0
    /\ {"play", "stop", "deinit"} \subseteq hwCalls
    /\ ~entry.speaker_enable

\* C14: for every table length L > 0 the wave table generator yields exactly
\* L entries, each in 0..65535, and the entry at index 0 is 32768.
C14_WaveTable ==
    /\ Len(table) <= table_length
    /\ \A k \in 1..Len(table) : table[k] \in 0..65535
    /\ (Len(table) >= 1) => table[1] = 32768
    /\ gen_done => Len(table) = table_length

C14_Witness ==
    /\ gen_done
    /\ table_length = 4
    /\ table = <<32768, 65535, 32768, 1>>

====
